---------------------------- MODULE Spec2Model ----------------------------
(***************************************************************************)
(* A model of the UCT (Monte-Carlo tree search) class of                   *)
(* src/src/montecarlo.cpp.                                                 *)
(*                                                                         *)
(* The state is one UCT object (its counters, its stack of moves, its      *)
(* array of nodes), the Position it refers to, and the UCTInfo objects     *)
(* that exist.  Each function of the file is one operator; the            *)
(* specifications below drive them:                                        *)
(*   Spec / FairSpec   the constructor and UCT::search                     *)
(*   SpecStack         do_move, undo_move and calculate_prior              *)
(*   SpecNode          add_prior_to_node, UCB and best_move on one node    *)
(*   SpecTree          tree_policy, generate_moves and backup over a root  *)
(*                     node that exists                                    *)
(*   SpecSync/FairSync the ConditionVariable of src/src/thread_win32_osx.h *)
(*                     between a waiting and a notifying thread            *)
(*   SpecAffine        AffineTransform::Propagate of                       *)
(*                     src/src/nnue/layers/affine_transform.h              *)
(*   SpecCodec         value_to_reward and reward_to_value                 *)
(***************************************************************************)
EXTENDS Integers, Sequences, FiniteSets, TLC

VARIABLES
  pc,           \* where the caller of the UCT object stands
  pos,          \* UCT::pos, the caller's Position (a reference)
  callPos,      \* the position as it was when search was called
  rootPosition, \* UCT::rootPosition, the hard copy made by create_root
  ply,          \* UCT::ply
  stack,        \* UCT::stack[-4 .. ], the moves played on the way down
  root,         \* UCT::root
  nodes,        \* UCT::nodes[ply]
  heap,         \* the UCTInfo objects that exist, by handle 1..Len(heap)
  doMoveCnt,    \* UCT::doMoveCnt
  treeSize,     \* UCT::treeSize
  descentCnt,   \* UCT::descentCnt
  playoutCnt,   \* UCT::playoutCnt
  node,         \* the local 'node' of search / the node handed to a call
  reward,       \* the last Reward a call returned
  result,       \* the last Move a call returned
  asserts,      \* TRUE when the build keeps assert() (no NDEBUG)
  lastOp,       \* the last function called on the object
  snaps,        \* <<ply, pos>> as they were before each do_move not yet undone
  expect,       \* <<ply, pos>> as they were before the do_move last undone
  moveCount,    \* the moveCount of the expansion loop
  value,        \* a Value handed to value_to_reward
  value2,       \* the Value reward_to_value returned
  cArg,         \* the constant C handed to best_move
  stopped,      \* the simulations that ended on the root node itself
  cv,           \* a ConditionVariable: semaphore, waiters_count, lock
  shared,       \* what its two threads share: their mutex and their flag
  at,           \* where each of the two threads stands
  layer         \* an AffineTransform layer, its accumulator and its output

objVars == <<pos, rootPosition, ply, stack, root, nodes, heap,
             doMoveCnt, treeSize, descentCnt, playoutCnt>>
callVars == <<pc, callPos, node, reward, result, lastOp>>
otherVars == <<cv, shared, at, layer>>
auxVars == <<asserts, snaps, expect, moveCount, value, value2, cArg,
             stopped, otherVars>>
vars == <<objVars, callVars, auxVars>>

-----------------------------------------------------------------------------
(* Bounds of the model *)

\* the number of moves a position of the model game offers at most
MaxWidth == 4
\* the depth at which the model game ends (no legal move is left)
GameDepth == 2
\* counters are counted up to MaxCnt and stay there
MaxCnt == 3
\* the Values handed to the codec are -MaxValue .. MaxValue
MaxValue == 2600
\* the notifying thread sets the flag and calls notify_one MaxNotify times
MaxNotify == 2
\* the biases of the layer are within MaxDelta of 0 and of the two values
\* whose product with 600 is the last that fits 32 bits
MaxDelta == 4

(* Program constants *)

\* the Reward 1.0 (montecarlo.cpp:147); Rewards kept in nodes are counted in
\* quarters
RewardOne == 4

\* types.h: the "no move" sentinel
MOVE_NONE == 0
\* the null Node
NULL == 0
\* a Node read from memory nobody initialized
WILD == -1
\* montecarlo.cpp:133, the number of nodes the budget allows
BudgetNodes == 5
\* the stack has four sentinel entries below index 0 (montecarlo.cpp:108)
StackSentinels == 4

Inc(c) == IF c < MaxCnt THEN c + 1 ELSE MaxCnt

\* no thread uses the ConditionVariable
SyncIdle ==
  /\ cv = [semaphore |-> 0, waiters_count |-> 0, lock |-> "free"]
  /\ shared = [Lck |-> "free", pred |-> FALSE]
  /\ at = [waiter |-> "idle", notifier |-> "idle", notified |-> 0,
           gap |-> FALSE]

\* a layer of one input and one output whose parameters are all 0
ZeroLayer ==
  [biases |-> 0, weights |-> 0, weight_zero_point |-> 0,
   scale |-> 0, scale_bits |-> 0,
   input |-> 0, sum |-> 0, overflow |-> FALSE, output |-> 0]

OthersIdle == SyncIdle /\ layer = ZeroLayer

Moves == 1..MaxWidth
StackIdx == (0 - StackSentinels)..GameDepth
NodeIdx == 0..GameDepth

-----------------------------------------------------------------------------
(* The Position class (position.cpp): a model game whose positions are the *)
(* sequences of moves played from a start position that offers 'width'     *)
(* moves at every turn until GameDepth.                                    *)

StartPositions ==
  { [width |-> w, hist |-> <<>>, intact |-> TRUE] : w \in 0..MaxWidth }

LegalMoves(p) ==
  IF p.intact /\ Len(p.hist) < GameDepth THEN 1..p.width ELSE {}

\* Position::do_move(m, st)
PosDoMove(p, m) == [p EXCEPT !.hist = Append(@, m)]

\* Position::undo_move(m): the exact inverse of do_move(m) when m is the
\* move played last; on any other move the position is no position any more
PosUndoMove(p, m) ==
  IF p.intact /\ Len(p.hist) > 0 /\ p.hist[Len(p.hist)] = m
  THEN [p EXCEPT !.hist = SubSeq(@, 1, Len(@) - 1)]
  ELSE [p EXCEPT !.intact = FALSE]

-----------------------------------------------------------------------------
(* Nodes *)

ZeroStackEntry == [ply |-> 0, currentMove |-> MOVE_NONE, moveCount |-> 0]

\* create_node(pos): "TODO, FIXME : this should create a Node !"
create_node(p) == NULL

-----------------------------------------------------------------------------
(* RewardCodec.  A Reward r is kept as its log-odds ln(r / (1 - r)) in     *)
(* units of 1e-8: exp and log are inverse to each other, so the log-odds  *)
(* of 1 / (1 + exp(k * v)) is -k * v, and log(r / (1 - r)) reads it back.  *)

\* montecarlo.cpp:334, k = -0.00183102048111 in units of 1e-8
k == -183102
\* montecarlo.cpp:347, g = 546.14353597715121 in units of 1e-6
g == 546143536
\* montecarlo.cpp:344, the log-odds of the reward 0.99: ln(99) in units of 1e-8
SaturationLogOdds == 459511985
\* types.h
VALUE_KNOWN_WIN == 10000
\* the rounding of the double arithmetic (and of the fixed-point arithmetic
\* here), in thousandths of a Value
FpErr == 5
FpErrors == (0 - FpErr)..FpErr

Abs(x) == IF x < 0 THEN 0 - x ELSE x
Max(x, y) == IF x < y THEN y ELSE x

\* UCT::value_to_reward(v): r = 1.0 / (1 + exp(k * int(v)))
value_to_reward(v) == 0 - k * v

\* g * a in thousandths of a Value, for log-odds a >= 0, by limbs that fit
\* in 32 bits
TimesG(a) ==
  LET a1 == a \div 10000
      a0 == a % 10000
      g1 == g \div 100000
      g0 == g % 100000
  IN  (a1 * g1) \div 100 + (a1 * g0) \div 10000000 + (a0 * g1) \div 1000000

\* a reward_to_value whose g is 1 / k with the sign of k
reward_to_value_signed_g(r, e) ==
  IF r > SaturationLogOdds THEN VALUE_KNOWN_WIN
  ELSE IF r < 0 - SaturationLogOdds THEN 0 - VALUE_KNOWN_WIN
  ELSE LET x == IF r = 0 THEN 0 ELSE Max(0, TimesG(Abs(r)) + e)
           t == x \div 1000
       IN  IF r < 0 THEN t ELSE 0 - t

\* UCT::reward_to_value(r), e being the rounding error of the arithmetic:
\* saturates above 0.99 and below 0.01, else Value(int(g * log(r / (1 - r))))
reward_to_value(r, e) ==
  IF r > SaturationLogOdds THEN VALUE_KNOWN_WIN
  ELSE IF r < 0 - SaturationLogOdds THEN 0 - VALUE_KNOWN_WIN
  ELSE LET x == IF r = 0 THEN 0 ELSE Max(0, TimesG(Abs(r)) + e)
           t == x \div 1000
       IN  IF r < 0 THEN 0 - t ELSE t

\* the Reward in quarters next to the reward of log-odds r
\* (the log-odds of 1/8, 3/8, 5/8, 7/8 are -ln 7, -ln(5/3), ln(5/3), ln 7)
Quantize(r) ==
  IF r < -194591015 THEN 0
  ELSE IF r < -51082562 THEN 1
  ELSE IF r <= 51082562 THEN 2
  ELSE IF r <= 194591015 THEN 3
  ELSE 4

-----------------------------------------------------------------------------
(* The stack of moves *)

\* the part of the object do_move and undo_move work on
Frame == [pos |-> pos, ply |-> ply, stack |-> stack]

\* UCT::do_move(m); contHistory, a pointer into tables of the thread, is
\* left out
do_move(f, m) ==
  [pos |-> PosDoMove(f.pos, m),
   ply |-> f.ply + 1,
   stack |-> [f.stack EXCEPT ![f.ply] =
                [@ EXCEPT !.ply = f.ply, !.currentMove = m]]]

\* an undo_move that reads the stack before it steps ply back
undo_move_reads_first(f) ==
  [pos |-> PosUndoMove(f.pos, f.stack[f.ply].currentMove),
   ply |-> f.ply - 1,
   stack |-> f.stack]

\* UCT::undo_move()
undo_move(f) ==
  [pos |-> PosUndoMove(f.pos, f.stack[f.ply - 1].currentMove),
   ply |-> f.ply - 1,
   stack |-> f.stack]

\* the evaluator, minimax_value(pos, ss, DEPTH_ZERO): a Value of the
\* position, one of -600, 0, 600 (two moves next to each other may get the
\* same Value)
RECURSIVE SumSeq(_)
SumSeq(q) == IF q = <<>> THEN 0 ELSE q[1] + SumSeq(Tail(q))
Evaluate(p) == 600 * ((((SumSeq(p.hist) \div 2) + Len(p.hist)) % 3) - 1)

\* UCT::evaluate_with_minimax(depth)
evaluate_with_minimax(f) == Evaluate(f.pos)

\* UCT::calculate_prior(move, n): the frame after the call, and the prior
calculate_prior(f, m) ==
  LET f1 == do_move(f, m)
      prior == Quantize(value_to_reward(evaluate_with_minimax(f1)))
      f2 == undo_move(f1)
  IN  [frame |-> f2, prior |-> prior]

SetFrame(f) == pos' = f.pos /\ ply' = f.ply /\ stack' = f.stack

-----------------------------------------------------------------------------
(* UCTInfo and Edge (montecarlo.h) *)

\* montecarlo.h: the number of edges a node has room for (the header is not
\* among the sources; the model gives a node room for three)
MAX_SONS == 3
EdgeIdx == 0..(MAX_SONS - 1)

ZeroEdge == [move |-> MOVE_NONE, prior |-> 0, visits |-> 0,
             actionValue |-> 0, meanAcionValue |-> 0]

\* a UCTInfo of zeroed memory
ZeroInfo == [visits |-> 0, sons |-> 0, expandedSons |-> 0,
             edges |-> [i \in EdgeIdx |-> ZeroEdge]]

IsNode(n) == n \in 1..Len(heap)

\* get_infos(node)
get_infos(n) == heap[n]

\* number_of_sons(node)
number_of_sons(n) == get_infos(n).sons

\* get_list_of_edges(node)
get_list_of_edges(n) == get_infos(n).edges

(* A double is a quotient n/d of integers (d > 0), an infinity, or NaN. *)
Num(n, d) == [kind |-> "num", n |-> n, d |-> d]
Inf(sign) == [kind |-> "inf", n |-> sign, d |-> 1]
NaN == [kind |-> "nan", n |-> 0, d |-> 1]

\* x / y for a double x (in quarters) and an integer y
Quotient(x, y) ==
  IF y > 0 THEN Num(x, RewardOne * y)
  ELSE IF y < 0 THEN Num(0 - x, RewardOne * (0 - y))
  ELSE IF x = 0 THEN NaN
  ELSE IF x > 0 THEN Inf(1) ELSE Inf(-1)

\* x + y for a finite y
Plus(x, y) ==
  IF x.kind = "num" THEN Num(x.n * y.d + y.n * x.d, x.d * y.d) ELSE x

\* x > y; a comparison with NaN is false
Greater(x, y) ==
  IF x.kind = "nan" \/ y.kind = "nan" THEN FALSE
  ELSE IF x.kind = "inf" THEN x.n > 0 /\ ~(y.kind = "inf" /\ y.n > 0)
  ELSE IF y.kind = "inf" THEN y.n < 0
  ELSE LET qx == x.n \div x.d
           qy == y.n \div y.d
       IN  qx > qy \/ (qx = qy /\ (x.n % x.d) * y.d > (y.n % y.d) * x.d)

\* sqrt(n), n being a square: the visits of a node are 0 or 1
Sqrt(n) == CHOOSE r \in 0..n : r * r = n

\* UCT::UCB(node, edge, C)
UCB(info, edge, C) ==
  Plus(Quotient(edge.actionValue, edge.visits),
       Num(C * edge.prior * Sqrt(info.visits), RewardOne * (1 + edge.visits)))

\* montecarlo.cpp:175
BestValueInit == -100000000

RECURSIVE BestScan(_, _, _, _, _)
BestScan(info, C, i, bestValue, best) ==
  IF i >= info.sons THEN best
  ELSE LET r == UCB(info, info.edges[i], C)
       IN  IF Greater(r, bestValue)
           THEN BestScan(info, C, i + 1, r, info.edges[i].move)
           ELSE BestScan(info, C, i + 1, bestValue, best)

\* UCT::best_move(node, C), for a node that exists
best_move(n, C) ==
  BestScan(get_infos(n), C, 0, Num(BestValueInit, 1), MOVE_NONE)

\* add_prior_to_node(node, m, prior, moveCount) with n < MAX_SONS: the
\* UCTInfo after the call
AddEdge(info, m, prior) ==
  [info EXCEPT !.edges[info.sons] =
                  [move |-> m, prior |-> prior, visits |-> 0,
                   actionValue |-> 0, meanAcionValue |-> 0],
               !.sons = @ + 1]

\* add_prior_to_node on the UCTInfo s: the UCTInfo after the call, and
\* whether one of the two assert() stopped the program (when the build keeps
\* them)
AddPriorTo(s, m, prior, mc) ==
  IF asserts /\ ~(s.sons < MAX_SONS)
  THEN [info |-> s, aborted |-> TRUE]
  ELSE IF s.sons < MAX_SONS
  THEN [info |-> AddEdge(s, m, prior),
        aborted |-> asserts /\ s.sons + 1 # mc]
  ELSE [info |-> s, aborted |-> FALSE]

\* add_prior_to_node(node, m, prior, moveCount), for a node that exists
add_prior_to_node(n, m, prior, mc) ==
  LET r == AddPriorTo(get_infos(n), m, prior, mc)
  IN  /\ heap' = [heap EXCEPT ![n] = r.info]
      /\ pc' = IF r.aborted THEN "aborted" ELSE pc

-----------------------------------------------------------------------------
(* The expansion of a node *)

\* UCT::current_node()
current_node == nodes[ply]

\* ComparePrior (montecarlo.h): the edge of the higher prior goes first
ComparePrior(a, b) == a.prior > b.prior

\* the loop of generate_moves from move m on, the move generator giving the
\* legal moves in the order of their numbers: the frame and the UCTInfo after
\* it, and whether an assert() of add_prior_to_node stopped the program
RECURSIVE ExpandLoop(_, _, _, _)
ExpandLoop(f, s, m, mc) ==
  IF m \notin LegalMoves(f.pos)
  THEN [frame |-> f, info |-> s, aborted |-> FALSE]
  ELSE LET f1 == [f EXCEPT !.stack[f.ply].moveCount = mc + 1]
           c == calculate_prior(f1, m)
           r == AddPriorTo(s, m, c.prior, mc + 1)
       IN  IF r.aborted
           THEN [frame |-> c.frame, info |-> r.info, aborted |-> TRUE]
           ELSE ExpandLoop(c.frame, r.info, m + 1, mc + 1)

Orders(n) ==
  { q \in [0..(n - 1) -> 0..(n - 1)] :
      \A i, j \in 0..(n - 1) : q[i] = q[j] => i = j }

\* std::sort(edges, edges + n, ComparePrior): the orders it may leave the
\* first n edges in, any permutation of them that is sorted (std::sort does
\* not say which when two edges compare equal)
SortFirst(s, n) ==
  { [s EXCEPT !.edges = [i \in EdgeIdx |->
                           IF i < n THEN s.edges[q[i]] ELSE s.edges[i]]] :
      q \in { q \in Orders(n) :
                \A i, j \in 0..(n - 1) :
                  i < j => ~ComparePrior(s.edges[q[j]], s.edges[q[i]]) } }

\* a sort that stops one edge short: std::sort(edges, edges + n - 1, ...)
SortEdges_but_the_last(s) == SortFirst(s, s.sons - 1)

\* the sort of generate_moves: n = number_of_sons(current_node()), and
\* std::sort(edges, edges + n, ComparePrior) when n > 0
SortEdges(s) == SortFirst(s, s.sons)

\* UCT::generate_moves(), for a current node that exists
generate_moves ==
  LET n == current_node
      loop == ExpandLoop(Frame, get_infos(n), 1, 0)
  IN  /\ SetFrame(loop.frame)
      /\ IF loop.aborted
         THEN pc' = "aborted" /\ heap' = [heap EXCEPT ![n] = loop.info]
         ELSE /\ pc' = pc
              /\ \E s \in SortEdges(loop.info) :
                   heap' = [heap EXCEPT ![n] =
                              [s EXCEPT !.visits = 1, !.expandedSons = 0]]
      /\ UNCHANGED <<rootPosition, root, nodes,
                     doMoveCnt, treeSize, descentCnt, playoutCnt>>

-----------------------------------------------------------------------------
(* The search *)

\* computational_budget()
computational_budget == treeSize < BudgetNodes


\* UCT::create_root(p): reset the counters and the stack, copy the root
\* position, erase the nodes and set the root node
create_root ==
  /\ doMoveCnt' = 0
  /\ treeSize' = 0
  /\ descentCnt' = 0
  /\ ply' = 0
  /\ stack' = [i \in StackIdx |-> ZeroStackEntry]
  /\ rootPosition' = pos
  /\ nodes' = [i \in NodeIdx |-> IF i = 0 THEN create_node(pos) ELSE NULL]
  /\ root' = create_node(pos)
  /\ UNCHANGED <<pos, heap, playoutCnt>>

\* a selection that goes down one move and is never taken back
tree_policy_descends ==
  /\ descentCnt' = Inc(descentCnt)
  /\ node' = root
  /\ IF LegalMoves(pos) # {}
     THEN SetFrame(do_move(Frame, CHOOSE m \in LegalMoves(pos) : TRUE))
     ELSE UNCHANGED <<pos, ply, stack>>
  /\ UNCHANGED <<rootPosition, root, nodes, heap,
                 doMoveCnt, treeSize, playoutCnt>>

\* UCT::tree_policy(): returns the node to expand
tree_policy ==
  /\ descentCnt' = Inc(descentCnt)
  /\ node' = root
  /\ UNCHANGED <<pos, rootPosition, ply, stack, root, nodes, heap,
                 doMoveCnt, treeSize, playoutCnt>>


\* UCT::playout_policy(node): returns the reward of a playout
playout_policy ==
  /\ playoutCnt' = Inc(playoutCnt)
  /\ reward' = RewardOne
  /\ UNCHANGED <<pos, rootPosition, ply, stack, root, nodes, heap,
                 doMoveCnt, treeSize, descentCnt>>

\* a backup that counts the visit on the edge of the root the path goes
\* through, and not on the root
backup_counts_the_edge_only ==
  /\ heap' = IF IsNode(root) /\ ply >= 1
             THEN [heap EXCEPT ![root].edges =
                     [i \in EdgeIdx |->
                        IF i < heap[root].sons
                           /\ @[i].move = stack[0].currentMove
                        THEN [@[i] EXCEPT !.visits = Inc(@)]
                        ELSE @[i]]]
             ELSE heap
  /\ UNCHANGED <<pos, rootPosition, ply, stack, root, nodes,
                 doMoveCnt, treeSize, descentCnt, playoutCnt>>

\* UCT::backup(node, r): an empty body
backup == UNCHANGED objVars

-----------------------------------------------------------------------------
(* Spec: a UCT object is constructed over a position, then search is       *)
(* called on it.                                                           *)

NoPosition == [width |-> 0, hist |-> <<>>, intact |-> FALSE]

\* the values an int nobody initialized can hold
Indeterminate == 0..MaxCnt

AuxInit ==
  /\ snaps = <<>>
  /\ expect = <<>>
  /\ moveCount = 0
  /\ value = 0
  /\ value2 = 0
  /\ cArg = 0
  /\ stopped = 0
  /\ OthersIdle

\* the memory of the object before its constructor has run: the ints that
\* create_root sets hold one value left there, whatever it is
Init ==
  /\ pc = "new"
  /\ pos \in StartPositions
  /\ callPos = NoPosition
  /\ rootPosition = NoPosition
  /\ ply \in Indeterminate
  /\ stack \in { [i \in StackIdx |-> [ZeroStackEntry EXCEPT !.currentMove = m]] :
                   m \in {MOVE_NONE} \cup Moves }
  /\ root \in {NULL, WILD}
  /\ nodes \in { [i \in NodeIdx |-> n] : n \in {NULL, WILD} }
  /\ heap = <<>>
  /\ doMoveCnt = ply
  /\ treeSize = ply
  /\ descentCnt = ply
  /\ playoutCnt \in Indeterminate
  /\ node = NULL
  /\ reward = 0
  /\ result = MOVE_NONE
  /\ asserts \in BOOLEAN
  /\ lastOp = "none"
  /\ AuxInit

\* UCT::UCT(p)
Construct ==
  /\ pc = "new"
  /\ create_root
  /\ pc' = "idle"
  /\ lastOp' = "create_root"
  /\ UNCHANGED <<callPos, node, reward, result, auxVars>>

\* UCT::search(p), up to the loop
SearchEnter ==
  /\ pc = "idle"
  /\ callPos' = pos
  /\ create_root
  /\ pc' = "budget"
  /\ lastOp' = "create_root"
  /\ UNCHANGED <<node, reward, result, auxVars>>

\* while (computational_budget()) ... return best_move(root, 0.0): reading
\* the sons of a root that is no node is undefined, whatever it yields
SearchTest ==
  /\ pc = "budget"
  /\ IF computational_budget
     THEN pc' = "tree_policy" /\ result' = result
     ELSE IF IsNode(root)
     THEN pc' = "done" /\ result' = best_move(root, 0)
     ELSE \E m \in {MOVE_NONE} \cup Moves :
            /\ result' = m
            /\ pc' \in {"done", "crashed"}
  /\ UNCHANGED <<objVars, callPos, node, reward, lastOp, auxVars>>

SearchTreePolicy ==
  /\ pc = "tree_policy"
  /\ tree_policy
  /\ pc' = "playout_policy"
  /\ lastOp' = "tree_policy"
  /\ UNCHANGED <<callPos, reward, result, auxVars>>

SearchPlayoutPolicy ==
  /\ pc = "playout_policy"
  /\ playout_policy
  /\ pc' = "backup"
  /\ lastOp' = "playout_policy"
  /\ UNCHANGED <<callPos, node, result, auxVars>>

SearchBackup ==
  /\ pc = "backup"
  /\ backup
  /\ pc' = "budget"
  /\ lastOp' = "backup"
  /\ UNCHANGED <<callPos, node, reward, result, auxVars>>

Next ==
  \/ Construct
  \/ SearchEnter
  \/ SearchTest
  \/ SearchTreePolicy
  \/ SearchPlayoutPolicy
  \/ SearchBackup

Spec == Init /\ [][Next]_vars

\* the one thread of the program always takes its next step
FairSpec == Spec /\ WF_vars(Next)

-----------------------------------------------------------------------------
(* Claims about UCT::search, under Spec and FairSpec *)

InLoopBody == pc \in {"tree_policy", "playout_policy", "backup"}
IterationEnd == pc = "budget" /\ lastOp = "backup"

\* C1: search terminates: the budget predicate becomes false after finitely
\* many iterations and search returns best_move(root, 0.0).
C1_SearchTerminates == <>(pc = "done")

\* C2: for a root position with a legal move and a budget of at least one
\* expansion, what search returns -- best_move(root, 0.0) once an iteration
\* is completed -- is a legal move of the root, never MOVE_NONE.
C2_ReturnsLegalMove ==
  /\ (IterationEnd /\ LegalMoves(callPos) # {})
       => (IsNode(root) /\ best_move(root, 0) \in LegalMoves(callPos))
  /\ (pc = "done" /\ LegalMoves(callPos) # {})
       => result \in LegalMoves(callPos)

\* C3: when the root position has no legal move, search returns MOVE_NONE
\* at once: it does not enter the body of the loop.
C3_NoLegalMoveReturnsAtOnce ==
  (pc \notin {"new", "idle"} /\ LegalMoves(callPos) = {})
    => /\ ~InLoopBody
       /\ descentCnt = 0
       /\ (pc = "done" => result = MOVE_NONE)

\* C4: at the end of every iteration of the loop, and when search has
\* returned, ply is 0 and the position is the one search was called with.
C4_StateRestored ==
  (IterationEnd \/ pc = "done") => (ply = 0 /\ pos = callPos)

\* C4 witness: an iteration over a position with legal moves has ended
C4_Witness ==
  IterationEnd /\ LegalMoves(callPos) # {} /\ ply = 0 /\ pos = callPos

\* C5: after create_root, whatever the tree held before, the tree is one
\* node: root is a node, it is nodes[0], it has no visits and no edges, and
\* ply is 0.
C5_RootIsTheOnlyNode ==
  lastOp = "create_root"
    => /\ IsNode(root)
       /\ nodes[0] = root
       /\ Len(heap) = 1
       /\ get_infos(root).visits = 0
       /\ number_of_sons(root) = 0
       /\ ply = 0

-----------------------------------------------------------------------------
(* SpecStack: on a constructed object, a caller plays moves down with      *)
(* do_move, takes them back with undo_move, and asks for priors.           *)

\* the object as the constructor leaves it, r being the Node create_node
\* returned
ConstructedOver(r) ==
  /\ pc = "idle"
  /\ pos \in StartPositions
  /\ callPos = NoPosition
  /\ rootPosition = pos
  /\ ply = 0
  /\ stack = [i \in StackIdx |-> ZeroStackEntry]
  /\ root = r
  /\ nodes = [i \in NodeIdx |-> IF i = 0 THEN r ELSE NULL]
  /\ doMoveCnt = 0
  /\ treeSize = 0
  /\ descentCnt = 0
  /\ playoutCnt \in Indeterminate
  /\ reward = 0
  /\ result = MOVE_NONE
  /\ lastOp = "create_root"

Constructed == ConstructedOver(create_node(pos))

InitStack ==
  /\ Constructed
  /\ node = NULL
  /\ heap = <<>>
  /\ asserts \in BOOLEAN
  /\ AuxInit

StackFrameRest == <<rootPosition, root, nodes, heap,
                    doMoveCnt, treeSize, descentCnt, playoutCnt>>

DoMove(m) ==
  /\ pc = "idle"
  /\ m \in LegalMoves(pos)
  /\ SetFrame(do_move(Frame, m))
  /\ snaps' = Append(snaps, <<ply, pos>>)
  /\ lastOp' = "do_move"
  /\ UNCHANGED <<StackFrameRest, pc, callPos, node, reward, result,
                 asserts, expect, moveCount, value, value2, cArg, stopped,
                 otherVars>>

\* the undo_move that pairs with the last do_move not yet undone
UndoMove ==
  /\ pc = "idle"
  /\ snaps # <<>>
  /\ SetFrame(undo_move(Frame))
  /\ expect' = snaps[Len(snaps)]
  /\ snaps' = SubSeq(snaps, 1, Len(snaps) - 1)
  /\ lastOp' = "undo_move"
  /\ UNCHANGED <<StackFrameRest, pc, callPos, node, reward, result,
                 asserts, moveCount, value, value2, cArg, stopped,
                 otherVars>>

CalculatePrior(m) ==
  /\ pc = "idle"
  /\ m \in LegalMoves(pos)
  /\ LET c == calculate_prior(Frame, m)
     IN  SetFrame(c.frame) /\ reward' = c.prior
  /\ expect' = <<ply, pos>>
  /\ lastOp' = "calculate_prior"
  /\ UNCHANGED <<StackFrameRest, pc, callPos, node, result,
                 asserts, snaps, moveCount, value, value2, cArg, stopped,
                 otherVars>>

NextStack ==
  \/ \E m \in Moves : DoMove(m)
  \/ UndoMove
  \/ \E m \in Moves : CalculatePrior(m)

SpecStack == InitStack /\ [][NextStack]_vars

\* C8: after a do_move and the undo_move that pairs with it (nested pairs
\* and the pair inside calculate_prior included), ply and the position are
\* what they were before the do_move.
C8_DoUndoRoundTrip ==
  lastOp \in {"undo_move", "calculate_prior"} => <<ply, pos>> = expect

\* C8 witness: the inner pair of two nested pairs has been undone
C8_Witness ==
  /\ lastOp = "undo_move"
  /\ Len(snaps) = 1
  /\ ply = 1
  /\ pos.intact
  /\ <<ply, pos>> = expect

-----------------------------------------------------------------------------
(* SpecCodec: a Value is turned into a Reward and back. *)

InitCodec ==
  /\ Constructed
  /\ node = NULL
  /\ pos.width = 0
  /\ playoutCnt = 0
  /\ heap = <<>>
  /\ asserts = FALSE
  /\ snaps = <<>>
  /\ expect = <<>>
  /\ moveCount = 0
  /\ value \in (0 - MaxValue)..MaxValue
  /\ value2 = 0
  /\ cArg = 0
  /\ stopped = 0
  /\ OthersIdle

ValueToReward ==
  /\ pc = "idle"
  /\ reward' = value_to_reward(value)
  /\ pc' = "encoded"
  /\ lastOp' = "value_to_reward"
  /\ UNCHANGED <<objVars, callPos, node, result, auxVars>>

RewardToValue ==
  /\ pc = "encoded"
  /\ \E e \in FpErrors : value2' = reward_to_value(reward, e)
  /\ pc' = "decoded"
  /\ lastOp' = "reward_to_value"
  /\ UNCHANGED <<objVars, callPos, node, reward, result,
                 asserts, snaps, expect, moveCount, value, cArg, stopped,
                 otherVars>>

NextCodec == ValueToReward \/ RewardToValue

SpecCodec == InitCodec /\ [][NextCodec]_vars

\* the reward is neither above 0.99 nor below 0.01
NotSaturated(r) == Abs(r) <= SaturationLogOdds

\* C9: reward_to_value(value_to_reward(v)) is v within a tolerance of one
\* unit of Value, for every v whose reward is within 0.01 .. 0.99.
C9_CodecRoundTrip ==
  (pc = "decoded" /\ NotSaturated(reward)) => Abs(value2 - value) <= 1

\* C9 witness: a Value near the saturation boundary came back
C9_Witness ==
  /\ pc = "decoded"
  /\ NotSaturated(reward)
  /\ value = -2509
  /\ value2 \in {-2509, -2508}

-----------------------------------------------------------------------------
(* SpecNode: a caller hands a UCTInfo of its own ('node') to                *)
(* add_prior_to_node, once per legal move of the position as the loop of   *)
(* generate_moves does, asks best_move about it, plays the move of one of  *)
(* its edges and calls backup.                                             *)

\* the exploration constants handed to best_move: 0.0 as search does, and
\* the default 10.0
ExplorationConstants == {0, 10}

\* the priors calculate_prior yields for the Values of the evaluator
Priors == { Quantize(value_to_reward(v)) : v \in {-600, 0, 600} }

InitNode ==
  /\ Constructed
  /\ pos.width = MaxWidth
  /\ \E v \in {0, 1} : heap = <<[ZeroInfo EXCEPT !.visits = v]>>
  /\ node = Len(heap)
  /\ asserts \in BOOLEAN
  /\ snaps = <<>>
  /\ expect = ZeroInfo
  /\ moveCount = 0
  /\ value = 0
  /\ value2 = 0
  /\ cArg = 0
  /\ stopped = 0
  /\ OthersIdle

\* the body of the loop of generate_moves for the next legal move, on the node
AddPrior(prior) ==
  /\ pc = "idle"
  /\ ply = 0
  /\ moveCount + 1 \in LegalMoves(pos)
  /\ moveCount' = moveCount + 1
  /\ expect' = get_infos(node)
  /\ add_prior_to_node(node, moveCount + 1, prior, moveCount + 1)
  /\ lastOp' = "add_prior_to_node"
  /\ UNCHANGED <<pos, rootPosition, ply, stack, root, nodes,
                 doMoveCnt, treeSize, descentCnt, playoutCnt, callPos, node,
                 reward, result, asserts, snaps, value, value2, cArg, stopped,
                 otherVars>>

BestMove(C) ==
  /\ pc = "idle"
  /\ cArg' = C
  /\ result' = best_move(node, C)
  /\ lastOp' = "best_move"
  /\ UNCHANGED <<objVars, pc, callPos, node, reward,
                 asserts, snaps, expect, moveCount, value, value2,
                 stopped,
                 otherVars>>

\* the move of edge i of the node is played
Descend(i) ==
  /\ pc = "idle"
  /\ ply = 0
  /\ i < number_of_sons(node)
  /\ get_list_of_edges(node)[i].move \in LegalMoves(pos)
  /\ SetFrame(do_move(Frame, get_list_of_edges(node)[i].move))
  /\ lastOp' = "do_move"
  /\ UNCHANGED <<StackFrameRest, pc, callPos, node, reward, result, auxVars>>

\* backup(node, r) at the end of a path of one move
Backup(r) ==
  /\ pc = "idle"
  /\ ply = 1
  /\ backup
  /\ reward' = r
  /\ expect' = get_infos(node)
  /\ lastOp' = "backup"
  /\ UNCHANGED <<pc, callPos, node, result,
                 asserts, snaps, moveCount, value, value2, cArg, stopped,
                 otherVars>>

NextNode ==
  \/ \E prior \in Priors : AddPrior(prior)
  \/ \E C \in ExplorationConstants : BestMove(C)
  \/ \E i \in EdgeIdx : Descend(i)
  \/ \E r \in Priors \cup {RewardOne} : Backup(r)

SpecNode == InitNode /\ [][NextNode]_vars

\* C6: add_prior_to_node on a node that holds MAX_SONS edges does not stop
\* the program and leaves the node as it was (the move is skipped), so that
\* no node ever has more than MAX_SONS edges.
C6_FullNodeSkipsTheMove ==
  /\ number_of_sons(node) <= MAX_SONS
  /\ (lastOp = "add_prior_to_node" /\ expect.sons = MAX_SONS)
       => (pc # "aborted" /\ get_infos(node) = expect)

\* the UCB score of the specification: Q is 0 for an edge without visits
UCBOfSpec(info, edge, C) ==
  IF edge.visits = 0
  THEN Num(C * edge.prior * Sqrt(info.visits), RewardOne)
  ELSE UCB(info, edge, C)

\* edge i has the maximum score, and is the first that has it
IsFirstMaximum(info, C, i) ==
  /\ \A j \in 0..(info.sons - 1) :
       ~Greater(UCBOfSpec(info, info.edges[j], C),
                UCBOfSpec(info, info.edges[i], C))
  /\ \A j \in 0..(i - 1) :
       Greater(UCBOfSpec(info, info.edges[i], C),
               UCBOfSpec(info, info.edges[j], C))

\* C7: best_move(node, C) returns the move of the edge of maximum UCB score,
\* the first such edge on ties, when the node has an edge, else MOVE_NONE.
C7_BestMoveIsFirstMaximum ==
  lastOp = "best_move" =>
    LET info == get_infos(node) IN
    IF info.sons = 0 THEN result = MOVE_NONE
    ELSE \E i \in 0..(info.sons - 1) :
           IsFirstMaximum(info, cArg, i) /\ result = info.edges[i].move

\* the edge of the node the path goes through
OnPath(info, i) ==
  i < info.sons /\ ply >= 1 /\ info.edges[i].move = stack[0].currentMove

\* C10: backup(node, r) adds 1 to the visits of every edge on the path and
\* the reward of its level to its accumulated action value, and changes no
\* other edge: the visits of an edge count the simulations through it.
C10_BackupCountsThePath ==
  lastOp = "backup" =>
    \A i \in EdgeIdx :
      LET before == expect.edges[i]
          after == get_infos(node).edges[i]
      IN  IF OnPath(expect, i)
          THEN /\ after.visits = before.visits + 1
               /\ after.actionValue = before.actionValue + reward
          ELSE after = before

\* C20: for an edge without visits, UCB(node, edge, C) is the number
\* C * P * sqrt(N) / (1 + 0): Q is 0, not the quotient actionValue / visits,
\* and nothing is divided by zero.
C20_ZeroVisitsScoreIsANumber ==
  lastOp = "best_move" =>
    LET info == get_infos(node) IN
    \A i \in 0..(info.sons - 1) :
      info.edges[i].visits = 0 =>
        LET score == UCB(info, info.edges[i], cArg)
        IN  /\ score.kind = "num"
            /\ score.n * RewardOne
                 = cArg * info.edges[i].prior * Sqrt(info.visits) * score.d

-----------------------------------------------------------------------------
(* SpecTree: the object over a root node that exists, as create_root leaves *)
(* it once create_node creates a Node.  A caller runs the steps of a        *)
(* simulation on it: tree_policy, moves down, generate_moves on the current *)
(* node, backup.                                                            *)

InitTree ==
  /\ heap = <<ZeroInfo>>
  /\ ConstructedOver(Len(heap))
  /\ node = NULL
  /\ asserts \in BOOLEAN
  /\ snaps = <<>>
  /\ expect = ZeroInfo
  /\ moveCount = 0
  /\ value = 0
  /\ value2 = 0
  /\ cArg = 0
  /\ stopped = 0
  /\ OthersIdle

\* tree_policy(), called where search calls it: at the root, first in a
\* simulation
TreePolicy ==
  /\ pc = "idle"
  /\ ply = 0
  /\ node = NULL
  /\ tree_policy
  /\ lastOp' = "tree_policy"
  /\ UNCHANGED <<pc, callPos, reward, result, auxVars>>

\* generate_moves(): with no current node, it reads a null pointer
GenerateMoves ==
  /\ pc = "idle"
  /\ IF IsNode(current_node)
     THEN generate_moves /\ expect' = get_infos(current_node)
     ELSE pc' \in {"crashed", "idle"} /\ UNCHANGED <<objVars, expect>>
  /\ lastOp' = "generate_moves"
  /\ UNCHANGED <<callPos, node, reward, result,
                 asserts, snaps, moveCount, value, value2, cArg, stopped,
                 otherVars>>

\* backup(node, r) on the node tree_policy returned
TreeBackup(r) ==
  /\ pc = "idle"
  /\ IsNode(node)
  /\ backup
  /\ reward' = r
  /\ expect' = get_infos(node)
  /\ stopped' = IF ply = 0 THEN Inc(stopped) ELSE stopped
  /\ lastOp' = "backup"
  /\ UNCHANGED <<pc, callPos, node, result,
                 asserts, snaps, moveCount, value, value2, cArg,
                 otherVars>>

\* the rewards handed to backup: 1.0 as playout_policy returns it, and the
\* reward of the Value 600
TreeRewards == {RewardOne, Quantize(value_to_reward(600))}

NextTree ==
  \/ TreePolicy
  \/ \E m \in Moves : DoMove(m)
  \/ GenerateMoves
  \/ \E r \in TreeRewards : TreeBackup(r)

SpecTree == InitTree /\ [][NextTree]_vars

\* the reward of level d of a path of 'depth' moves that ends with reward r
RECURSIVE RewardAtLevel(_, _, _)
RewardAtLevel(d, depth, r) ==
  IF d >= depth - 1 THEN r ELSE RewardOne - RewardAtLevel(d + 1, depth, r)

\* C11: backup of reward r along a path alternates the perspective: the edge
\* above the evaluated node accumulates r, each edge one level higher
\* accumulates 1 minus the reward of the edge below it.
C11_BackupFlipsThePerspective ==
  (lastOp = "backup" /\ ply >= 1) =>
    \A i \in EdgeIdx :
      OnPath(expect, i) =>
        get_infos(node).edges[i].actionValue
          = expect.edges[i].actionValue + RewardAtLevel(0, ply, reward)

RECURSIVE SumVisits(_, _)
SumVisits(info, n) ==
  IF n = 0 THEN 0 ELSE info.edges[n - 1].visits + SumVisits(info, n - 1)

\* C12: the visits of the edges of a node sum to the visits of the node
\* minus the simulations that ended on the node itself.
C12_EdgeVisitsSumToNodeVisits ==
  lastOp = "backup" =>
    LET info == get_infos(root)
    IN  SumVisits(info, info.sons) = info.visits - stopped

\* C13: no edge has more visits than the node that owns it.
C13_EdgeVisitsWithinNodeVisits ==
  \A n \in 1..Len(heap) :
    \A i \in 0..(heap[n].sons - 1) : heap[n].edges[i].visits <= heap[n].visits

\* C13 witness: a backup went through an edge of the expanded root
C13_Witness ==
  /\ lastOp = "backup"
  /\ get_infos(root).visits = 1
  /\ \E i \in EdgeIdx : OnPath(get_infos(root), i)
  /\ \A i \in 0..(get_infos(root).sons - 1) :
       get_infos(root).edges[i].visits <= get_infos(root).visits

\* C14: tree_policy returns the first node without visits on the way down
\* from the root; it is the current node after the call; a node that is
\* expanded and has edges is never returned.
C14_TreePolicyReturnsUnvisitedNode ==
  lastOp = "tree_policy" =>
    /\ IsNode(node)
    /\ node = current_node
    /\ get_infos(node).visits = 0

\* C15: right after create_root, the descent counter, the playout counter
\* and the tree-size counter are all 0.
C15_CreateRootResetsCounters ==
  lastOp = "create_root" =>
    (descentCnt = 0 /\ playoutCnt = 0 /\ treeSize = 0)

\* the expansion of the root the last call made, the root having had no edge
FirstExpansionDone ==
  /\ lastOp = "generate_moves"
  /\ pc = "idle"
  /\ IsNode(current_node)
  /\ expect.sons = 0

\* C16: after the first expansion of a root with m legal moves, m within the
\* capacity, treeSize is 1 + m, the root and one node per legal move.
C16_TreeSizeCountsNodes ==
  (FirstExpansionDone /\ ply = 0 /\ Cardinality(LegalMoves(pos)) <= MAX_SONS)
    => treeSize = 1 + Cardinality(LegalMoves(pos))

\* the moves the last generate_moves found room for
Added == { m \in LegalMoves(pos) : m <= MAX_SONS - expect.sons }

CountPair(info, m, prior) ==
  Cardinality({ i \in 0..(info.sons - 1) :
                  info.edges[i].move = m /\ info.edges[i].prior = prior })

\* C17: after generate_moves the edges of the node are a permutation of the
\* (move, prior) pairs added, in the order of non-increasing prior.
C17_EdgesSortedByPrior ==
  (lastOp = "generate_moves" /\ pc = "idle" /\ IsNode(current_node)) =>
    LET info == get_infos(current_node) IN
    /\ info.sons = expect.sons + Cardinality(Added)
    /\ \A i, j \in 0..(info.sons - 1) :
         i < j => info.edges[i].prior >= info.edges[j].prior
    /\ \A m \in Moves : \A prior \in 0..RewardOne :
         CountPair(info, m, prior)
           = CountPair(expect, m, prior)
             + (IF m \in Added /\ prior = calculate_prior(Frame, m).prior
                THEN 1 ELSE 0)

\* C17 witness: three edges added in another order than that of their priors
C17_Witness ==
  /\ FirstExpansionDone
  /\ get_infos(current_node).sons = MAX_SONS
  /\ calculate_prior(Frame, 1).prior < calculate_prior(Frame, 2).prior
  /\ get_infos(current_node).edges[MAX_SONS - 1].move = 1

\* C18: the sort of generate_moves is stable: edges of equal priors stay in
\* the order the move generator gave their moves in.
C18_SortIsStable ==
  FirstExpansionDone =>
    LET info == get_infos(current_node) IN
    \A i, j \in 0..(info.sons - 1) :
      (i < j /\ info.edges[i].prior = info.edges[j].prior)
        => info.edges[i].move < info.edges[j].move

-----------------------------------------------------------------------------
(* SpecSync: the ConditionVariable of thread_win32_osx.h.  One thread locks *)
(* the shared mutex, waits for the flag with wait(idx, _Lck, _Pred, sloppy),*)
(* takes the flag down and unlocks; the other locks the mutex, sets the    *)
(* flag and calls notify_one, before or after it unlocks.                  *)

uctVars == <<objVars, callVars, asserts, snaps, expect, moveCount,
             value, value2, cArg, stopped>>

\* a UCT object nobody calls
UCTIdle ==
  /\ Constructed
  /\ pos.width = 0
  /\ playoutCnt = 0
  /\ node = NULL
  /\ heap = <<>>
  /\ asserts = FALSE

InitSync == UCTIdle /\ AuxInit

\* Semaphore::signal(count) and Semaphore::wait() (sema.h): a counting
\* semaphore
SemaphoreSignal(n, count) == n + count
SemaphoreWait(n) == n - 1

\* wait, lines 97-98: std::unique_lock<Mutex> lk(lock); waiters_count--;
wait_register(c) ==
  [c EXCEPT !.lock = "waiter", !.waiters_count = @ - 1]

\* a notify_one that signals only when it counts a waiter
notify_one_when_counted(c) ==
  [c EXCEPT !.waiters_count = @ + 1,
            !.semaphore = IF c.waiters_count < 0
                          THEN SemaphoreSignal(@, 1) ELSE @]

\* notify_one, lines 120-121, under the lock:
\* waiters_count++; semaphore.signal(1);
notify_one(c) ==
  [c EXCEPT !.waiters_count = @ + 1, !.semaphore = SemaphoreSignal(@, 1)]

\* the waiting thread locks the shared mutex and calls wait
WaiterLock ==
  /\ at.waiter = "idle"
  /\ shared.Lck = "free"
  /\ shared' = [shared EXCEPT !.Lck = "waiter"]
  /\ at' = [at EXCEPT !.waiter = "test", !.gap = FALSE]
  /\ UNCHANGED <<uctVars, cv, layer>>

\* while (!_Pred())
WaitTest ==
  /\ at.waiter = "test"
  /\ at' = [at EXCEPT !.waiter = IF shared.pred THEN "returned" ELSE "lk"]
  /\ UNCHANGED <<uctVars, cv, shared, layer>>

WaitRegister ==
  /\ at.waiter = "lk"
  /\ cv.lock = "free"
  /\ cv' = wait_register(cv)
  /\ at' = [at EXCEPT !.waiter = "unlock_Lck"]
  /\ UNCHANGED <<uctVars, shared, layer>>

\* _Lck.unlock();
WaitUnlockCaller ==
  /\ at.waiter = "unlock_Lck"
  /\ shared' = [shared EXCEPT !.Lck = "free"]
  /\ at' = [at EXCEPT !.waiter = "unlock_lk"]
  /\ UNCHANGED <<uctVars, cv, layer>>

\* lk.unlock(); and then the sleep of 'sloppy' milliseconds, if any
WaitUnlockOwn ==
  /\ at.waiter = "unlock_lk"
  /\ cv' = [cv EXCEPT !.lock = "free"]
  /\ at' = [at EXCEPT !.waiter = "sleep"]
  /\ UNCHANGED <<uctVars, shared, layer>>

\* semaphore.wait();
WaitSemaphore ==
  /\ at.waiter = "sleep"
  /\ cv.semaphore > 0
  /\ cv' = [cv EXCEPT !.semaphore = SemaphoreWait(@)]
  /\ at' = [at EXCEPT !.waiter = "relock"]
  /\ UNCHANGED <<uctVars, shared, layer>>

\* _Lck.lock();
WaitRelock ==
  /\ at.waiter = "relock"
  /\ shared.Lck = "free"
  /\ shared' = [shared EXCEPT !.Lck = "waiter"]
  /\ at' = [at EXCEPT !.waiter = "test"]
  /\ UNCHANGED <<uctVars, cv, layer>>

\* back from wait, the thread takes the flag down and unlocks
WaiterConsume ==
  /\ at.waiter = "returned"
  /\ shared' = [Lck |-> "free", pred |-> FALSE]
  /\ at' = [at EXCEPT !.waiter = "idle"]
  /\ UNCHANGED <<uctVars, cv, layer>>

\* the notifying thread locks the shared mutex and sets the flag
NotifierSet ==
  /\ at.notifier = "idle"
  /\ at.notified < MaxNotify
  /\ shared.Lck = "free"
  /\ shared' = [Lck |-> "notifier", pred |-> TRUE]
  /\ at' = [at EXCEPT !.notifier = "set"]
  /\ UNCHANGED <<uctVars, cv, layer>>

\* it unlocks the shared mutex, before notify_one or after it
NotifierUnlock ==
  /\ at.notifier \in {"set", "notified"}
  /\ shared.Lck = "notifier"
  /\ shared' = [shared EXCEPT !.Lck = "free"]
  /\ at' = IF at.notifier = "set"
           THEN [at EXCEPT !.notifier = "unlocked"]
           ELSE [at EXCEPT !.notifier = "idle", !.notified = @ + 1]
  /\ UNCHANGED <<uctVars, cv, layer>>

\* notify_one: std::lock_guard<Mutex> lk(lock);
NotifyEnter ==
  /\ at.notifier \in {"set", "unlocked"}
  /\ cv.lock = "free"
  /\ cv' = [cv EXCEPT !.lock = "notifier"]
  /\ at' = [at EXCEPT !.notifier = "notify"]
  /\ UNCHANGED <<uctVars, shared, layer>>

NotifySignal ==
  /\ at.notifier = "notify"
  /\ cv' = notify_one(cv)
  /\ at' = [at EXCEPT !.notifier = "signalled",
                      !.gap = @ \/ at.waiter = "sleep"]
  /\ UNCHANGED <<uctVars, shared, layer>>

\* the end of notify_one: the lock_guard unlocks
NotifyExit ==
  /\ at.notifier = "signalled"
  /\ cv' = [cv EXCEPT !.lock = "free"]
  /\ at' = IF shared.Lck = "notifier"
           THEN [at EXCEPT !.notifier = "notified"]
           ELSE [at EXCEPT !.notifier = "idle", !.notified = @ + 1]
  /\ UNCHANGED <<uctVars, shared, layer>>

WaiterNext ==
  \/ WaiterLock
  \/ WaitTest
  \/ WaitRegister
  \/ WaitUnlockCaller
  \/ WaitUnlockOwn
  \/ WaitSemaphore
  \/ WaitRelock
  \/ WaiterConsume

NotifierNext ==
  \/ NotifierSet
  \/ NotifierUnlock
  \/ NotifyEnter
  \/ NotifySignal
  \/ NotifyExit

NextSync == WaiterNext \/ NotifierNext

SpecSync == InitSync /\ [][NextSync]_vars

\* each thread that can take a step takes one in the end
FairSync == SpecSync /\ WF_vars(WaiterNext) /\ WF_vars(NotifierNext)

InsideWait ==
  at.waiter \in {"test", "lk", "unlock_Lck", "unlock_lk", "sleep", "relock"}

-----------------------------------------------------------------------------
(* SpecAffine: AffineTransform::Propagate without ReLU, on a layer of one  *)
(* input and one output.  A 64-bit integer x is kept as two limbs,         *)
(* x = q * 2^16 + r with 0 <= r < 2^16.                                    *)

Limb == 2^16
INT32_MAX == 2147483647

Wide(x) == [q |-> x \div Limb, r |-> x % Limb]

\* w * c
Times(w, c) ==
  LET lo == w.r * c
  IN  [q |-> w.q * c + lo \div Limb, r |-> lo % Limb]

\* w is a value of std::int32_t
InInt32(w) == w.q >= 0 - 2^15 /\ w.q < 2^15

\* w modulo 2^32, as a signed 32-bit integer
Wrap(w) == [q |-> ((w.q + 2^15) % Limb) - 2^15, r |-> w.r]

\* rounding_shift(w, s) (nnue_common.h): (w + 2^(s - 1)) >> s, for s >= 16
rounding_shift(w, s) ==
  IF s = 16 THEN w.q + (w.r + 2^15) \div Limb
  ELSE (w.q + 2^(s - 17)) \div 2^(s - 16)

\* lines 91-95: the accumulator of output 0
Accumulate(l) ==
  l.biases + l.weights * l.input - l.input * l.weight_zero_point

\* sum * 600 as the build computes it, in 32 bits: a product that does not
\* fit is undefined; the build wraps it, or computes it in 64 bits
Product(sum) ==
  LET exact == Times(Wide(sum), 600)
  IN  IF InInt32(exact) THEN {exact} ELSE {Wrap(exact), exact}

\* the accumulators whose product with 600 is the last that fits 32 bits
AccumulatorEdge == INT32_MAX \div 600

Biases ==
  UNION { { c + d : d \in (0 - MaxDelta)..MaxDelta } :
            c \in {0 - AccumulatorEdge, 0, AccumulatorEdge} }

\* the parameters ReadParameters reads from the network file, and an input
Layers ==
  { [ZeroLayer EXCEPT !.biases = b, !.weights = w, !.scale = sc,
                      !.scale_bits = sb, !.input = x] :
      b \in Biases, w \in {-1, 1}, sc \in {1, 3}, sb \in {16, 17},
      x \in {0, 1} }

InitAffine ==
  /\ UCTIdle
  /\ snaps = <<>>
  /\ expect = <<>>
  /\ moveCount = 0
  /\ value = 0
  /\ value2 = 0
  /\ cArg = 0
  /\ stopped = 0
  /\ SyncIdle
  /\ layer \in Layers

\* Propagate, UseRelu being false: lines 88-102 for output 0
Propagate ==
  /\ pc = "idle"
  /\ LET sum == Accumulate(layer) IN
     \E p \in Product(sum) :
       layer' = [layer EXCEPT
                   !.sum = sum,
                   !.overflow = ~InInt32(Times(Wide(sum), 600)),
                   !.output = rounding_shift(Times(p, layer.scale),
                                             layer.scale_bits)]
  /\ pc' = "propagated"
  /\ lastOp' = "Propagate"
  /\ UNCHANGED <<objVars, callPos, node, reward, result, asserts, snaps,
                 expect, moveCount, value, value2, cArg, stopped,
                 cv, shared, at>>

NextAffine == Propagate

SpecAffine == InitAffine /\ [][NextAffine]_vars

\* C22: in Propagate without ReLU the product sum * 600 stays within the
\* signed 32-bit range whatever the accumulator sum, so that the output is
\* rounding_shift(sum * 600 * scale_, scale_bits_) computed exactly.
C22_ProductFitsInt32 ==
  pc = "propagated" =>
    /\ ~layer.overflow
    /\ layer.output
         = rounding_shift(Times(Times(Wide(layer.sum), 600), layer.scale),
                          layer.scale_bits)

=============================================================================
